---- MODULE Spec2Model ----
(***************************************************************************)
(* Model of utils/callback.py: the Callback hook classes (Callback,        *)
(* PeriodicCallback, PeriodicSaver, SummaryWriter) and the Callbacks       *)
(* aggregator that orders them, dispatches before_train / trigger_step /   *)
(* trigger_epoch to them and reports slow hooks.                           *)
(*                                                                         *)
(* Every public method of Callbacks is one action that models the whole    *)
(* call.  What a call did is kept in `events`, the sequence of things that *)
(* happened during the most recent call, in the order they happened.       *)
(***************************************************************************)
EXTENDS Integers, Sequences, FiniteSets, TLC

(***************************************************************************)
(* Bounds of the model.                                                    *)
(***************************************************************************)
MaxHooks    == 3   \* longest list handed to Callbacks.__init__
MaxPeriod   == 2   \* largest period of a PeriodicSaver
MaxEpochs   == 4   \* Callbacks.trigger_epoch calls in one run
MaxChannels == 2   \* summary writers registered in the collection
MaxInput    == 2   \* distinct argument triples of trigger_step
MaxErrors   == 1   \* errors after which the caller still goes on calling
MaxTicks    == 3   \* longest time one hook's trigger_epoch takes, in ticks
MaxOverhead == 1   \* longest time trigger_epoch spends outside the hooks
TicksPerSec == 1   \* resolution of the clock: ticks per second

(***************************************************************************)
(* Program constants: the thresholds of the slow-hook report.  Time is     *)
(* counted in ticks of 1/TicksPerSec second.                               *)
(***************************************************************************)
TotFloorSec  == 3    \* `if tot < 3: return`
ShareNum     == 3    \* `t / tot > 0.3`  is  t * ShareDen > ShareNum * tot
ShareDen     == 10
HookFloorSec == 1    \* `t > 1`

VARIABLES
    constructed,  \* "no" | "ok" | "error": outcome of Callbacks.__init__
    input,        \* the list that was handed to Callbacks.__init__
    callbacks,    \* Callbacks.callbacks: the hook objects, in list order
    collection,   \* tf collection SUMMARY_WRITER_COLLECTION_KEY (process-wide)
    writer,       \* Callbacks.writer: a channel number, 0 while the attribute is unset
    op,           \* the most recent call: "" | "__init__" | "before_train" | ...
    args,         \* its arguments (<<inputs, outputs, cost>> for trigger_step)
    events,       \* what happened during it, in order
    result,       \* how it ended: [status, by, err]
    times,        \* trigger_epoch's local `times`
    tot,          \* trigger_epoch's local `tot`, -1 while not computed
    outside,      \* time the call spent outside the hooks' trigger_epoch (flush, loop)
    logged,       \* the lines the call handed to logger.info
    nEpochs,      \* number of Callbacks.trigger_epoch calls so far
    patience,     \* the number of errors after which the caller still goes on
    nErrors       \* number of calls so far that ended in an error

vars == <<constructed, input, callbacks, collection, writer, op, args, events,
          result, times, tot, outside, logged, nEpochs, patience, nErrors>>

(***************************************************************************)
(* Hook objects.  One record shape for all classes; a field a class does   *)
(* not have keeps its initial value.  `id` is the object's identity (its   *)
(* position in the input list).  `calls`, `fires` and `saves` are history: *)
(* the number of trigger_epoch calls the hook received, the call numbers   *)
(* at which _trigger ran, and the global_step tags handed to saver.save.   *)
(***************************************************************************)
Kinds == {"SummaryWriter", "PeriodicSaver", "UserCallback"}

\* The hooks a caller can construct: class and, for a PeriodicSaver, period.
Templates ==
    {[kind |-> "SummaryWriter", period |-> 0], [kind |-> "UserCallback", period |-> 0]}
    \cup {[kind |-> "PeriodicSaver", period |-> p] : p \in 1..MaxPeriod}

\* Callback / PeriodicCallback.__init__ / SummaryWriter.__init__
NewHook(t, id) ==
    [id |-> id, kind |-> t.kind, period |-> t.period,
     epoch_num |-> 0,          \* PeriodicCallback.epoch_num, SummaryWriter.epoch_num
     sess |-> FALSE,           \* Callback.before_train has set graph and sess
     saver |-> FALSE,          \* PeriodicSaver.saver is set
     writer |-> 0,             \* SummaryWriter.writer, 0 while unset
     summary_op |-> "unset",   \* SummaryWriter.summary_op: "unset" | "None" | "op"
     last_dp |-> 0,            \* SummaryWriter.last_dp, 0 while unset
     calls |-> 0, fires |-> <<>>, saves |-> <<>>]

\* One hook of each class: the period of a PeriodicSaver is read by
\* trigger_epoch alone.
ClassTemplates == {t \in Templates : t.period \in {0, MaxPeriod}}

\* Every list of up to MaxHooks hooks, by the classes of its hooks.
InputLists ==
    UNION {[1..n -> ClassTemplates] : n \in 0..MaxHooks}

MakeHooks(ts) == [i \in 1..Len(ts) |-> NewHook(ts[i], i)]

NoErr == ""
Ok == [status |-> "ok", by |-> 0, err |-> NoErr]
Raised(by, err) == [status |-> "raised", by |-> by, err |-> err]

Ev(e, h, a) == [e |-> e, h |-> h, a |-> a]

(***************************************************************************)
(* Callbacks.__init__                                                      *)
(***************************************************************************)
\* (variant: the search keeps the last SummaryWriter it meets)
RECURSIVE FirstSummaryWriter_last(_, _)
FirstSummaryWriter_last(cbs, idx) ==
    IF idx > Len(cbs) THEN 0
    ELSE LET later == FirstSummaryWriter_last(cbs, idx + 1)
         IN  IF later # 0 THEN later
             ELSE IF cbs[idx].kind = "SummaryWriter" THEN idx ELSE 0

\* the idx (1-based) at which the for loop breaks, 0 when it runs to its else
RECURSIVE FirstSummaryWriter(_, _)
FirstSummaryWriter(cbs, idx) ==
    IF idx > Len(cbs) THEN 0
    ELSE IF cbs[idx].kind = "SummaryWriter" THEN idx
    ELSE FirstSummaryWriter(cbs, idx + 1)

\* list.pop(idx): the list without its idx-th element
Pop(cbs, idx) == SubSeq(cbs, 1, idx - 1) \o SubSeq(cbs, idx + 1, Len(cbs))

\* list.insert(0, x)
Insert0(cbs, x) == <<x>> \o cbs

\* (variant: the found hook and the first hook change places)
MoveToFront_swap(cbs, idx) == [cbs EXCEPT ![1] = cbs[idx], ![idx] = cbs[1]]

\* callbacks.insert(0, callbacks.pop(idx))
MoveToFront(cbs, idx) == Insert0(Pop(cbs, idx), cbs[idx])

\* (variant: a list without a SummaryWriter is accepted as it is)
Callbacks_init_lenient(cbs) ==
    LET idx == FirstSummaryWriter(cbs, 1)
    IN  [result |-> Ok, callbacks |-> IF idx = 0 THEN cbs ELSE MoveToFront(cbs, idx)]

Callbacks_init(cbs) ==
    LET idx == FirstSummaryWriter(cbs, 1)
    IN  IF idx = 0
        THEN [result |-> Raised(0, "RuntimeError: callbacks must contain a SummaryWriter!"),
              callbacks |-> <<>>]
        ELSE [result |-> Ok, callbacks |-> MoveToFront(cbs, idx)]

\* the state before Callbacks is constructed, with a caller that goes on after
\* an error at most p times
Start(p) ==
    /\ constructed = "no"
    /\ input = <<>>
    /\ callbacks = <<>>
    /\ collection = <<>>
    /\ writer = 0
    /\ op = ""
    /\ args = <<>>
    /\ events = <<>>
    /\ result = Ok
    /\ times = <<>>
    /\ tot = -1
    /\ outside = 0
    /\ logged = <<>>
    /\ nEpochs = 0
    /\ patience = p
    /\ nErrors = 0

Init == Start(MaxErrors)

Construct(Lists) ==
    /\ constructed = "no"
    /\ \E ts \in Lists :
         LET r == Callbacks_init(MakeHooks(ts))
         IN  /\ input' = MakeHooks(ts)
             /\ constructed' = IF r.result.status = "ok" THEN "ok" ELSE "error"
             /\ callbacks' = r.callbacks
             /\ result' = r.result
    /\ op' = "__init__"
    /\ args' = <<>>
    /\ events' = <<>>
    /\ UNCHANGED <<collection, writer, times, tot, outside, logged, nEpochs, patience, nErrors>>

(***************************************************************************)
(* Hook methods.  Each returns [h, coll, err, events]: the hook object     *)
(* after the call, the collection after it, the error it raised (NoErr     *)
(* when it returned) and what it did.  `fault` says that the external      *)
(* operation the method performs (a TensorFlow call, or the body of a      *)
(* user-defined override) fails in this call.                              *)
(***************************************************************************)
HookRet(h, coll, err, evs) == [h |-> h, coll |-> coll, err |-> err, events |-> evs]

\* SummaryWriter._before_train: create the writer, register it, merge summaries.
\* tf.merge_all_summaries() is None when the graph defines no summary.
SummaryWriter_before_train(h, coll, fault, hasSummaries) ==
    IF fault
    THEN HookRet(h, coll, "SummaryWriterError", <<>>)
    ELSE LET ch == Len(coll) + 1
         IN  HookRet([h EXCEPT !.writer = ch,
                               !.summary_op = IF hasSummaries THEN "op" ELSE "None"],
                     Append(coll, ch),
                     NoErr,
                     <<Ev("add_to_collection", h.id, <<ch>>)>>)

\* PeriodicSaver._before_train
PeriodicSaver_before_train(h, coll, fault) ==
    IF fault
    THEN HookRet(h, coll, "SaverError", <<>>)
    ELSE HookRet([h EXCEPT !.saver = TRUE], coll, NoErr, <<>>)

\* Callback._before_train as overridden by a user-defined hook
UserCallback_before_train(h, coll, fault) ==
    HookRet(h, coll, IF fault THEN "UserError" ELSE NoErr, <<>>)

\* Callback.before_train: set graph and sess, then _before_train
Callback_before_train(h, coll, fault, hasSummaries) ==
    LET h1 == [h EXCEPT !.sess = TRUE]
    IN  CASE h.kind = "SummaryWriter" ->
               SummaryWriter_before_train(h1, coll, fault, hasSummaries)
          [] h.kind = "PeriodicSaver" -> PeriodicSaver_before_train(h1, coll, fault)
          [] OTHER -> UserCallback_before_train(h1, coll, fault)

\* (variant: a PeriodicCallback counts the steps too)
Callback_trigger_step_counting(h, inputs, outputs, cost, fault) ==
    CASE h.kind = "SummaryWriter" -> HookRet([h EXCEPT !.last_dp = inputs], <<>>, NoErr, <<>>)
      [] h.kind = "PeriodicSaver" ->
           HookRet([h EXCEPT !.epoch_num = h.epoch_num + 1], <<>>, NoErr, <<>>)
      [] OTHER -> HookRet(h, <<>>, IF fault THEN "UserError" ELSE NoErr, <<>>)

\* SummaryWriter.trigger_step / Callback.trigger_step (a no-op unless overridden)
Callback_trigger_step(h, inputs, outputs, cost, fault) ==
    CASE h.kind = "SummaryWriter" -> HookRet([h EXCEPT !.last_dp = inputs], <<>>, NoErr, <<>>)
      [] h.kind = "PeriodicSaver" -> HookRet(h, <<>>, NoErr, <<>>)
      [] OTHER -> HookRet(h, <<>>, IF fault THEN "UserError" ELSE NoErr, <<>>)

\* SummaryWriter.trigger_epoch.  Reading an attribute that was never assigned
\* (summary_op before _before_train, last_dp before any trigger_step) raises
\* AttributeError.
SummaryWriter_trigger_epoch(h, fault) ==
    IF h.summary_op = "unset" THEN HookRet(h, <<>>, "AttributeError", <<>>)
    ELSE IF h.summary_op = "None" THEN HookRet(h, <<>>, NoErr, <<>>)
    ELSE IF h.last_dp = 0 THEN HookRet(h, <<>>, "AttributeError", <<>>)
    ELSE IF fault THEN HookRet(h, <<>>, "EvalError", <<>>)
    ELSE HookRet([h EXCEPT !.epoch_num = h.epoch_num + 1], <<>>, NoErr,
                 <<Ev("add_summary", h.id, <<h.writer, h.epoch_num + 1>>)>>)

\* (variant: a save is tagged with its ordinal among the hook's saves)
PeriodicSaver_trigger_ordinal(h, fault) ==
    LET h1 == [h EXCEPT !.fires = Append(h.fires, h.calls)]
    IN  IF ~h.saver
        THEN HookRet(h1, <<>>, "AttributeError", <<Ev("_trigger", h.id, <<>>)>>)
        ELSE HookRet([h1 EXCEPT !.saves = Append(h.saves, Len(h.saves) + 1)], <<>>,
                     IF fault THEN "SaveError" ELSE NoErr,
                     <<Ev("_trigger", h.id, <<>>), Ev("save", h.id, <<Len(h.saves) + 1>>)>>)

\* PeriodicSaver._trigger: saver.save(..., global_step=self.epoch_num, ...)
PeriodicSaver_trigger(h, fault) ==
    LET h1 == [h EXCEPT !.fires = Append(h.fires, h.calls)]
    IN  IF ~h.saver
        THEN HookRet(h1, <<>>, "AttributeError", <<Ev("_trigger", h.id, <<>>)>>)
        ELSE HookRet([h1 EXCEPT !.saves = Append(h.saves, h.epoch_num)], <<>>,
                     IF fault THEN "SaveError" ELSE NoErr,
                     <<Ev("_trigger", h.id, <<>>), Ev("save", h.id, <<h.epoch_num>>)>>)

\* (variant: the test is made on the counter before its increment)
PeriodDue_early(epoch_num, period) == (epoch_num - 1) % period = 0

\* `self.epoch_num % self.__period == 0`
PeriodDue(epoch_num, period) == epoch_num % period = 0

\* (variant: the counter starts again after _trigger)
PeriodicCallback_trigger_epoch_reset(h, fault) ==
    LET h1 == [h EXCEPT !.epoch_num = h.epoch_num + 1]
    IN  IF PeriodDue(h1.epoch_num, h1.period)
        THEN PeriodicSaver_trigger([h1 EXCEPT !.epoch_num = 0], fault)
        ELSE HookRet(h1, <<>>, NoErr, <<>>)

\* PeriodicCallback.trigger_epoch
PeriodicCallback_trigger_epoch(h, fault) ==
    LET h1 == [h EXCEPT !.epoch_num = h.epoch_num + 1]
    IN  IF PeriodDue(h1.epoch_num, h1.period)
        THEN PeriodicSaver_trigger(h1, fault)
        ELSE HookRet(h1, <<>>, NoErr, <<>>)

\* cb.trigger_epoch() for each class
Callback_trigger_epoch(h, fault) ==
    LET h1 == [h EXCEPT !.calls = h.calls + 1]
    IN  CASE h.kind = "SummaryWriter" -> SummaryWriter_trigger_epoch(h1, fault)
          [] h.kind = "PeriodicSaver" -> PeriodicCallback_trigger_epoch(h1, fault)
          [] OTHER -> HookRet(h1, <<>>, IF fault THEN "UserError" ELSE NoErr, <<>>)

(***************************************************************************)
(* The aggregator's dispatch loops.  `st` is the loop's state: the hook    *)
(* list, the collection, the events so far, the local `times`, and the     *)
(* error that left the loop (`by` is the id of the hook that raised it).   *)
(* `f` is the list index of the hook whose external operation fails in     *)
(* this call, 0 for none.  An error a hook raises is not caught: the loop  *)
(* is left at once.                                                        *)
(***************************************************************************)
LoopStart(cbs, coll) ==
    [cbs |-> cbs, coll |-> coll, events |-> <<>>, times |-> <<>>, by |-> 0, err |-> NoErr]

\* how a hook's method ended; a raise carries the error
Outcome(h, r) == IF r.err = NoErr THEN Ev("return", h.id, <<>>) ELSE Ev("raise", h.id, <<r.err>>)

\* `for cb in self.callbacks: cb.before_train()`
RECURSIVE BeforeTrainLoop(_, _, _, _)
BeforeTrainLoop(st, i, f, hasSummaries) ==
    IF i > Len(st.cbs) THEN st
    ELSE LET h == st.cbs[i]
             r == Callback_before_train(h, st.coll, i = f, hasSummaries)
             st1 == [st EXCEPT !.cbs[i] = r.h,
                               !.coll = r.coll,
                               !.events = st.events \o <<Ev("before_train", h.id, <<>>)>>
                                          \o r.events \o <<Outcome(h, r)>>,
                               !.by = IF r.err = NoErr THEN 0 ELSE h.id,
                               !.err = r.err]
         IN  IF r.err # NoErr THEN st1 ELSE BeforeTrainLoop(st1, i + 1, f, hasSummaries)

\* (variant: the aggregator takes the newest entry of the collection)
Callbacks_before_train_newest(cbs, coll, w, f, hasSummaries) ==
    LET st == BeforeTrainLoop(LoopStart(cbs, coll), 1, f, hasSummaries)
    IN  IF st.err # NoErr
        THEN [callbacks |-> st.cbs, collection |-> st.coll, writer |-> w,
              events |-> st.events, result |-> Raised(st.by, st.err)]
        ELSE IF st.coll = <<>>
        THEN [callbacks |-> st.cbs, collection |-> st.coll, writer |-> w,
              events |-> st.events, result |-> Raised(0, "IndexError")]
        ELSE [callbacks |-> st.cbs, collection |-> st.coll, writer |-> st.coll[Len(st.coll)],
              events |-> Append(st.events, Ev("get_collection", 0, <<st.coll[Len(st.coll)]>>)),
              result |-> Ok]

\* (variant: the collection is read before the hooks run)
Callbacks_before_train_early(cbs, coll, w, f, hasSummaries) ==
    LET st == BeforeTrainLoop(LoopStart(cbs, coll), 1, f, hasSummaries)
        w1 == IF coll = <<>> THEN w ELSE coll[1]
        evs == <<Ev("get_collection", 0, <<w1>>)>> \o st.events
    IN  [callbacks |-> st.cbs, collection |-> st.coll, writer |-> w1, events |-> evs,
         result |-> IF st.err # NoErr THEN Raised(st.by, st.err) ELSE Ok]

\* Callbacks.before_train
Callbacks_before_train(cbs, coll, w, f, hasSummaries) ==
    LET st == BeforeTrainLoop(LoopStart(cbs, coll), 1, f, hasSummaries)
    IN  IF st.err # NoErr
        THEN [callbacks |-> st.cbs, collection |-> st.coll, writer |-> w,
              events |-> st.events, result |-> Raised(st.by, st.err)]
        ELSE IF st.coll = <<>>
        THEN [callbacks |-> st.cbs, collection |-> st.coll, writer |-> w,
              events |-> st.events, result |-> Raised(0, "IndexError")]
        ELSE [callbacks |-> st.cbs, collection |-> st.coll, writer |-> st.coll[1],
              events |-> Append(st.events, Ev("get_collection", 0, <<st.coll[1]>>)),
              result |-> Ok]

\* `for cb in self.callbacks: cb.trigger_step(inputs, outputs, cost)`
RECURSIVE TriggerStepLoop(_, _, _, _, _, _)
TriggerStepLoop(st, i, f, inputs, outputs, cost) ==
    IF i > Len(st.cbs) THEN st
    ELSE LET h == st.cbs[i]
             r == Callback_trigger_step(h, inputs, outputs, cost, i = f)
             st1 == [st EXCEPT !.cbs[i] = r.h,
                               !.events = st.events
                                          \o <<Ev("trigger_step", h.id, <<inputs, outputs, cost>>)>>
                                          \o r.events \o <<Outcome(h, r)>>,
                               !.by = IF r.err = NoErr THEN 0 ELSE h.id,
                               !.err = r.err]
         IN  IF r.err # NoErr THEN st1
             ELSE TriggerStepLoop(st1, i + 1, f, inputs, outputs, cost)

\* (variant: the hooks get outputs where inputs belong)
Callbacks_trigger_step_swapped(cbs, f, inputs, outputs, cost) ==
    LET st == TriggerStepLoop(LoopStart(cbs, <<>>), 1, f, outputs, inputs, cost)
    IN  [callbacks |-> st.cbs, events |-> st.events,
         result |-> IF st.err # NoErr THEN Raised(st.by, st.err) ELSE Ok]

\* Callbacks.trigger_step
Callbacks_trigger_step(cbs, f, inputs, outputs, cost) ==
    LET st == TriggerStepLoop(LoopStart(cbs, <<>>), 1, f, inputs, outputs, cost)
    IN  [callbacks |-> st.cbs, events |-> st.events,
         result |-> IF st.err # NoErr THEN Raised(st.by, st.err) ELSE Ok]

\* `times.append(time.time() - s)`: reached when the hook returned
Sampled(h, r, d) == IF r.err = NoErr THEN <<Ev("times.append", h.id, <<d>>)>> ELSE <<>>

\* the timed loop of Callbacks.trigger_epoch; durs[i] is the time the i-th hook's
\* trigger_epoch takes in this call
\* (variant: an error of a hook is swallowed and the loop goes on)
RECURSIVE TriggerEpochLoop_swallow(_, _, _, _)
TriggerEpochLoop_swallow(st, i, f, durs) ==
    IF i > Len(st.cbs) THEN st
    ELSE LET h == st.cbs[i]
             r == Callback_trigger_epoch(h, i = f)
             st1 == [st EXCEPT !.cbs[i] = r.h,
                               !.events = st.events \o <<Ev("trigger_epoch", h.id, <<>>)>>
                                          \o r.events \o <<Outcome(h, r)>>,
                               !.times = Append(st.times, durs[i])]
         IN  TriggerEpochLoop_swallow(st1, i + 1, f, durs)

\* (variant: each sample is put at the front of `times`)
RECURSIVE TriggerEpochLoop_prepend(_, _, _, _)
TriggerEpochLoop_prepend(st, i, f, durs) ==
    IF i > Len(st.cbs) THEN st
    ELSE LET h == st.cbs[i]
             r == Callback_trigger_epoch(h, i = f)
             st1 == [st EXCEPT !.cbs[i] = r.h,
                               !.events = st.events \o <<Ev("trigger_epoch", h.id, <<>>)>>
                                          \o r.events \o <<Outcome(h, r)>>
                                          \o Sampled(h, r, durs[i]),
                               !.times = IF r.err = NoErr THEN <<durs[i]>> \o st.times
                                         ELSE st.times,
                               !.by = IF r.err = NoErr THEN 0 ELSE h.id,
                               !.err = r.err]
         IN  IF r.err # NoErr THEN st1 ELSE TriggerEpochLoop_prepend(st1, i + 1, f, durs)

RECURSIVE TriggerEpochLoop(_, _, _, _)
TriggerEpochLoop(st, i, f, durs) ==
    IF i > Len(st.cbs) THEN st
    ELSE LET h == st.cbs[i]
             r == Callback_trigger_epoch(h, i = f)
             st1 == [st EXCEPT !.cbs[i] = r.h,
                               !.events = st.events \o <<Ev("trigger_epoch", h.id, <<>>)>>
                                          \o r.events \o <<Outcome(h, r)>>
                                          \o Sampled(h, r, durs[i]),
                               !.times = IF r.err = NoErr THEN Append(st.times, durs[i])
                                         ELSE st.times,
                               !.by = IF r.err = NoErr THEN 0 ELSE h.id,
                               !.err = r.err]
         IN  IF r.err # NoErr THEN st1 ELSE TriggerEpochLoop(st1, i + 1, f, durs)

RECURSIVE SumSeq(_)
SumSeq(s) == IF s = <<>> THEN 0 ELSE Head(s) + SumSeq(Tail(s))

\* (variant: a lower floor)
BelowTotFloor_low(total) == total < (TotFloorSec - 1) * TicksPerSec

\* `if tot < 3: return`
BelowTotFloor(total) == total < TotFloorSec * TicksPerSec

\* (variant: the share alone decides)
Heavy_share(t, total) == t * ShareDen > ShareNum * total

\* `t / tot > 0.3 and t > 1`
Heavy(t, total) ==
    /\ t * ShareDen > ShareNum * total
    /\ t > HookFloorSec * TicksPerSec

\* the msgs loop: "{}:{}".format(type(self.callbacks[idx]).__name__, t)
RECURSIVE Msgs(_, _, _, _)
Msgs(cbs, ts, total, idx) ==
    IF idx > Len(ts) THEN <<>>
    ELSE (IF Heavy(ts[idx], total)
          THEN <<[idx |-> idx, name |-> cbs[idx].kind, t |-> ts[idx]]>>
          ELSE <<>>) \o Msgs(cbs, ts, total, idx + 1)

\* (variant: the report is written only when it names a hook)
AfterEpochLoop_quiet(st, w, overhead) ==
    IF w = 0
    THEN [callbacks |-> st.cbs, events |-> st.events, result |-> Raised(0, "AttributeError"),
          times |-> st.times, tot |-> -1, logged |-> <<>>]
    ELSE LET total == SumSeq(st.times) + overhead
             evs == Append(st.events, Ev("flush", 0, <<w>>))
             msgs == Msgs(st.cbs, st.times, total, 1)
         IN  IF BelowTotFloor(total) \/ msgs = <<>>
             THEN [callbacks |-> st.cbs, events |-> evs, result |-> Ok,
                   times |-> st.times, tot |-> total, logged |-> <<>>]
             ELSE [callbacks |-> st.cbs, events |-> Append(evs, Ev("logger.info", 0, <<>>)),
                   result |-> Ok, times |-> st.times, tot |-> total,
                   logged |-> <<[tot |-> total, msgs |-> msgs]>>]

\* (variant: the total is the sum of the samples instead of the clock)
AfterEpochLoop_sumOnly(st, w, overhead) ==
    IF w = 0
    THEN [callbacks |-> st.cbs, events |-> st.events, result |-> Raised(0, "AttributeError"),
          times |-> st.times, tot |-> -1, logged |-> <<>>]
    ELSE LET total == SumSeq(st.times)
             evs == Append(st.events, Ev("flush", 0, <<w>>))
         IN  IF BelowTotFloor(total)
             THEN [callbacks |-> st.cbs, events |-> evs, result |-> Ok,
                   times |-> st.times, tot |-> total, logged |-> <<>>]
             ELSE [callbacks |-> st.cbs, events |-> Append(evs, Ev("logger.info", 0, <<>>)),
                   result |-> Ok, times |-> st.times, tot |-> total,
                   logged |-> <<[tot |-> total, msgs |-> Msgs(st.cbs, st.times, total, 1)]>>]

\* (variant: the report is made before the flush)
AfterEpochLoop_lateFlush(st, w, overhead) ==
    LET total == SumSeq(st.times) + overhead
        line == IF BelowTotFloor(total) THEN <<>>
                ELSE <<[tot |-> total, msgs |-> Msgs(st.cbs, st.times, total, 1)]>>
        evs == st.events \o (IF line = <<>> THEN <<>> ELSE <<Ev("logger.info", 0, <<>>)>>)
    IN  IF w = 0
        THEN [callbacks |-> st.cbs, events |-> evs, result |-> Raised(0, "AttributeError"),
              times |-> st.times, tot |-> total, logged |-> line]
        ELSE [callbacks |-> st.cbs, events |-> Append(evs, Ev("flush", 0, <<w>>)),
              result |-> Ok, times |-> st.times, tot |-> total, logged |-> line]

\* the part of Callbacks.trigger_epoch after the loop: flush, tot, the report
AfterEpochLoop(st, w, overhead) ==
    IF w = 0
    THEN [callbacks |-> st.cbs, events |-> st.events, result |-> Raised(0, "AttributeError"),
          times |-> st.times, tot |-> -1, logged |-> <<>>]
    ELSE LET total == SumSeq(st.times) + overhead
             evs == Append(st.events, Ev("flush", 0, <<w>>))
         IN  IF BelowTotFloor(total)
             THEN [callbacks |-> st.cbs, events |-> evs, result |-> Ok,
                   times |-> st.times, tot |-> total, logged |-> <<>>]
             ELSE [callbacks |-> st.cbs, events |-> Append(evs, Ev("logger.info", 0, <<>>)),
                   result |-> Ok, times |-> st.times, tot |-> total,
                   logged |-> <<[tot |-> total, msgs |-> Msgs(st.cbs, st.times, total, 1)]>>]

\* Callbacks.trigger_epoch
Callbacks_trigger_epoch(cbs, w, f, durs, overhead) ==
    LET st == TriggerEpochLoop(LoopStart(cbs, <<>>), 1, f, durs)
    IN  IF st.err # NoErr
        THEN [callbacks |-> st.cbs, events |-> st.events, result |-> Raised(st.by, st.err),
              times |-> st.times, tot |-> -1, logged |-> <<>>]
        ELSE AfterEpochLoop(st, w, overhead)

(***************************************************************************)
(* The calls of the training loop.  The source does not check the order of *)
(* the calls, and an error that surfaced leaves the objects as they were   *)
(* when it was raised, so every call is possible at any time after         *)
(* construction.  The caller goes on after an error at most `patience`    *)
(* times.  `faulty` says whether external operations can fail.             *)
(***************************************************************************)
Running == constructed = "ok" /\ nErrors <= patience

\* The hooks with an operation that can fail in a call of method m: every
\* _before_train and trigger_epoch in the source calls TensorFlow; of the
\* trigger_step methods only a user-defined override can fail.
CanFail(m, h) == m # "trigger_step" \/ h.kind = "UserCallback"

FaultChoices(faulty, m) ==
    IF faulty THEN {0} \cup {i \in 1..Len(callbacks) : CanFail(m, callbacks[i])} ELSE {0}

Errors(r) == IF r.status = "ok" THEN nErrors ELSE nErrors + 1

\* <<inputs, outputs, cost>> of a trigger_step call: three different values
StepArgs == {<<a, MaxInput + a, 2 * MaxInput + a>> : a \in 1..MaxInput}

BeforeTrain(faulty) ==
    /\ Running
    /\ Len(collection) < MaxChannels
    /\ \E f \in FaultChoices(faulty, "before_train"), hasSummaries \in BOOLEAN :
         LET r == Callbacks_before_train(callbacks, collection, writer, f, hasSummaries)
         IN  /\ callbacks' = r.callbacks
             /\ collection' = r.collection
             /\ writer' = r.writer
             /\ events' = r.events
             /\ result' = r.result
             /\ nErrors' = Errors(r.result)
    /\ op' = "before_train"
    /\ args' = <<>>
    /\ times' = <<>>
    /\ tot' = -1
    /\ outside' = 0
    /\ logged' = <<>>
    /\ UNCHANGED <<constructed, input, nEpochs, patience>>

TriggerStep(faulty) ==
    /\ Running
    /\ \E f \in FaultChoices(faulty, "trigger_step"), a \in StepArgs :
         LET r == Callbacks_trigger_step(callbacks, f, a[1], a[2], a[3])
         IN  /\ callbacks' = r.callbacks
             /\ events' = r.events
             /\ result' = r.result
             /\ args' = a
             /\ nErrors' = Errors(r.result)
    /\ op' = "trigger_step"
    /\ times' = <<>>
    /\ tot' = -1
    /\ outside' = 0
    /\ logged' = <<>>
    /\ UNCHANGED <<constructed, input, collection, writer, nEpochs, patience>>

TriggerEpoch(faulty, Durations, Overheads, limit) ==
    /\ Running
    /\ nEpochs < limit
    /\ \E f \in FaultChoices(faulty, "trigger_epoch"), durs \in Durations,
          overhead \in Overheads :
         LET r == Callbacks_trigger_epoch(callbacks, writer, f, durs, overhead)
         IN  /\ callbacks' = r.callbacks
             /\ events' = r.events
             /\ result' = r.result
             /\ times' = r.times
             /\ tot' = r.tot
             /\ outside' = IF r.tot = -1 THEN 0 ELSE overhead
             /\ logged' = r.logged
             /\ nErrors' = Errors(r.result)
    /\ op' = "trigger_epoch"
    /\ args' = <<>>
    /\ nEpochs' = nEpochs + 1
    /\ UNCHANGED <<constructed, input, collection, writer, patience>>

\* Times drawn in the specification of the lifecycle: all hooks are instant,
\* or all take the longest time.
UniformTimes(n) == {[i \in 1..n |-> d] : d \in {0, MaxTicks}}

\* Every distribution of the times over n hooks.
AllTimes(n) == [1..n -> 0..MaxTicks]

\* A list of MaxHooks hooks: the SummaryWriter at position pos, around it
\* PeriodicSavers of period p and user-defined hooks in turn.
MixedList(pos, p) ==
    [i \in 1..MaxHooks |->
        IF i = pos THEN [kind |-> "SummaryWriter", period |-> 0]
        ELSE IF (i + pos) % 2 = 1 THEN [kind |-> "PeriodicSaver", period |-> p]
        ELSE [kind |-> "UserCallback", period |-> 0]]

(***************************************************************************)
(* The specification of the lifecycle: a list of MaxHooks hooks with the   *)
(* SummaryWriter last, every order of the calls, failing operations, up to *)
(* MaxEpochs epochs.                                                       *)
(***************************************************************************)
RunLists == {MixedList(MaxHooks, p) : p \in 1..MaxPeriod}

Next ==
    \/ Construct(RunLists)
    \/ BeforeTrain(TRUE)
    \/ TriggerStep(TRUE)
    \/ TriggerEpoch(TRUE, UniformTimes(Len(callbacks)), {0}, MaxEpochs)

Spec == Init /\ [][Next]_vars

(***************************************************************************)
(* The specification of construction: every list of up to MaxHooks hooks,  *)
(* followed by before_train and trigger_step calls.                        *)
(***************************************************************************)
NextLists ==
    \/ Construct(InputLists)
    \/ BeforeTrain(TRUE)
    \/ TriggerStep(TRUE)

SpecLists == Init /\ [][NextLists]_vars

(***************************************************************************)
(* The specification of the slow-hook report: no failing operation, and    *)
(* every distribution of the times in the first trigger_epoch call of a    *)
(* run (the report of a call depends on the times of that call alone).     *)
(***************************************************************************)
TimingLists == {MixedList(1, p) : p \in 1..MaxPeriod}

NextTiming ==
    \/ Construct(TimingLists)
    \/ BeforeTrain(FALSE)
    \/ TriggerStep(FALSE)
    \/ nEpochs = 0 /\ TriggerEpoch(FALSE, AllTimes(Len(callbacks)), 0..MaxOverhead, MaxEpochs)
    \/ nEpochs > 0 /\ TriggerEpoch(FALSE, UniformTimes(Len(callbacks)), {0}, MaxEpochs)

SpecTiming == Init /\ [][NextTiming]_vars

(***************************************************************************)
(* The specification of the checkpoints: a SummaryWriter and a             *)
(* PeriodicSaver, failing operations, and a caller that goes on after one  *)
(* error more, so that a run can recover from a before_train that failed   *)
(* and from the trigger_epoch that failed after it.                        *)
(***************************************************************************)
SaverLists ==
    {<<[kind |-> "SummaryWriter", period |-> 0], [kind |-> "PeriodicSaver", period |-> p]>> :
        p \in 1..MaxPeriod}

InitSaver == Start(MaxErrors + 1)

NextSaver ==
    \/ Construct(SaverLists)
    \/ BeforeTrain(TRUE)
    \/ TriggerStep(TRUE)
    \/ TriggerEpoch(TRUE, UniformTimes(Len(callbacks)), {0}, MaxEpochs)

SpecSaver == InitSaver /\ [][NextSaver]_vars

(***************************************************************************)
(* Properties.                                                             *)
(***************************************************************************)
IdsOf(hs) == [i \in 1..Len(hs) |-> hs[i].id]

\* the hooks a sequence of events is about
HooksOf(evs) == [i \in 1..Len(evs) |-> evs[i].h]

IsSummaryWriter(h) == h.kind = "SummaryWriter"
IsOtherHook(h) == h.kind # "SummaryWriter"

NumSummaryWriters(hs) == Cardinality({i \in 1..Len(hs) : IsSummaryWriter(hs[i])})

\* the events of the most recent call that are invocations of hook method m
IsInvocation(m, ev) == ev.e = m
IsBeforeTrainEv(ev) == IsInvocation("before_train", ev)
IsTriggerStepEv(ev) == IsInvocation("trigger_step", ev)
IsTriggerEpochEv(ev) == IsInvocation("trigger_epoch", ev)

Positions(e) == {i \in 1..Len(events) : events[i].e = e}

\* s is the beginning of t
IsPrefix(s, t) == Len(s) <= Len(t) /\ s = SubSeq(t, 1, Len(s))

\* C1: when the list handed to Callbacks.__init__ holds exactly one
\* SummaryWriter, at whatever position, the hook list has the SummaryWriter at
\* its front and after it the other hooks in the order the input had them.
C1_SummaryWriterFirst ==
    (constructed = "ok" /\ NumSummaryWriters(input) = 1) =>
        /\ Len(callbacks) = Len(input)
        /\ IsSummaryWriter(callbacks[1])
        /\ IdsOf(Tail(callbacks)) = IdsOf(SelectSeq(input, IsOtherHook))

C1_Witness ==
    /\ constructed = "ok"
    /\ NumSummaryWriters(input) = 1
    /\ Len(input) = 3
    /\ IsSummaryWriter(input[3])
    /\ IdsOf(callbacks) = <<3, 1, 2>>

\* C2: constructing Callbacks from a list without a SummaryWriter, the empty
\* list included, raises the RuntimeError "callbacks must contain a
\* SummaryWriter!" and yields no hook list.
C2_NoSummaryWriterFails ==
    (constructed # "no" /\ NumSummaryWriters(input) = 0) =>
        /\ constructed = "error"
        /\ result = Raised(0, "RuntimeError: callbacks must contain a SummaryWriter!")
        /\ callbacks = <<>>

C2_Witness ==
    /\ constructed = "error"
    /\ Len(input) = 2
    /\ NumSummaryWriters(input) = 0

\* the call numbers P, 2P, ... up to M
Multiples(P, M) == [k \in 1..(M \div P) |-> k * P]

\* C3: a PeriodicCallback of period P that received M trigger_epoch calls has
\* run _trigger floor(M/P) times, during the calls numbered P, 2P, 3P, ...
C3_PeriodicFiring ==
    \A i \in 1..Len(callbacks) :
        callbacks[i].kind = "PeriodicSaver" =>
            callbacks[i].fires = Multiples(callbacks[i].period, callbacks[i].calls)

C3_Witness ==
    \E i \in 1..Len(callbacks) :
        /\ callbacks[i].kind = "PeriodicSaver"
        /\ callbacks[i].period = 2
        /\ callbacks[i].calls = 4
        /\ callbacks[i].fires = <<2, 4>>

\* C4: the epoch counter of a PeriodicCallback is the number of trigger_epoch
\* calls the hook received: it starts at 0, every call adds 1 whether or not
\* _trigger runs, and nothing resets or lowers it.
C4_CounterCountsCalls ==
    \A i \in 1..Len(callbacks) :
        callbacks[i].kind = "PeriodicSaver" => callbacks[i].epoch_num = callbacks[i].calls

C4_Witness ==
    \E i \in 1..Len(callbacks) :
        /\ callbacks[i].kind = "PeriodicSaver"
        /\ callbacks[i].period = 2
        /\ callbacks[i].calls = 3
        /\ callbacks[i].epoch_num = 3
        /\ Len(callbacks[i].fires) = 1

\* C5: Callbacks.trigger_step invokes trigger_step on the hooks in list order,
\* each once, with the inputs, outputs and cost it was given; a call that
\* returns has invoked every hook, and the SummaryWriter has kept the inputs.
C5_StepDispatch ==
    op = "trigger_step" =>
        LET inv == SelectSeq(events, IsTriggerStepEv)
        IN  /\ IsPrefix(HooksOf(inv), IdsOf(callbacks))
            /\ \A i \in 1..Len(inv) : inv[i].a = args
            /\ result.status = "ok" =>
                 /\ Len(inv) = Len(callbacks)
                 /\ callbacks[1].last_dp = args[1]

C5_Witness ==
    /\ op = "trigger_step"
    /\ result.status = "ok"
    /\ Len(callbacks) = 3
    /\ Len(SelectSeq(events, IsTriggerStepEv)) = 3
    /\ args = <<2, MaxInput + 2, 2 * MaxInput + 2>>
    /\ callbacks[1].last_dp = 2

\* the SummaryWriter that Callbacks.__init__ looks for: the first of the input
SinkId == input[FirstSummaryWriter(input, 1)].id

\* C6: in Callbacks.before_train the hooks' before_train run in list order, one
\* after the other; the SummaryWriter has registered its writer and returned
\* before any other hook's before_train starts; and the aggregator reads the
\* collection only after every hook's before_train has returned.
C6_BeforeTrainOrder ==
    op = "before_train" =>
        /\ IsPrefix(HooksOf(SelectSeq(events, IsBeforeTrainEv)), IdsOf(callbacks))
        /\ \A i, j \in Positions("before_train") :
             i < j => \E r \in Positions("return") :
                         i < r /\ r < j /\ events[r].h = events[i].h
        /\ \A j \in Positions("before_train") :
             events[j].h # SinkId =>
                 \E k \in Positions("add_to_collection"), r \in Positions("return") :
                     /\ k < r /\ r < j
                     /\ events[k].h = SinkId
                     /\ events[r].h = SinkId
        /\ \A g \in Positions("get_collection") :
             /\ g = Len(events)
             /\ \A c \in 1..Len(callbacks) :
                  \E r \in Positions("return") : r < g /\ events[r].h = callbacks[c].id
        /\ result.status = "ok" => Positions("get_collection") # {}

C6_Witness ==
    /\ op = "before_train"
    /\ result.status = "ok"
    /\ Len(callbacks) = 3
    /\ ~IsSummaryWriter(input[1])
    /\ writer # 0
    /\ events[Len(events)].e = "get_collection"

\* every hook's trigger_epoch was invoked in the most recent call and returned
AllHooksReturned ==
    /\ Positions("raise") = {}
    /\ Len(SelectSeq(events, IsTriggerEpochEv)) = Len(callbacks)

\* the aggregator flushed once, after every hook returned and before the report
FlushedOnceInPlace ==
    /\ Cardinality(Positions("flush")) = 1
    /\ \A fl \in Positions("flush") :
         /\ events[fl].a = <<writer>>
         /\ \A r \in Positions("return") : r < fl
         /\ \A l \in Positions("logger.info") : fl < l

DispatchOps == {"before_train", "trigger_step", "trigger_epoch"}

\* C8: when a hook raises during before_train, trigger_step or trigger_epoch
\* of the aggregator, nothing follows in that call: no later hook is invoked,
\* the failing hook is not invoked again, and the call ends with the hook's
\* error; a call that ends normally saw no hook raise.
C8_HookErrorSurfaces ==
    op \in DispatchOps =>
        /\ IsPrefix(HooksOf(SelectSeq(events, LAMBDA ev : ev.e = op)), IdsOf(callbacks))
        /\ \A i \in Positions("raise") :
             /\ i = Len(events)
             /\ result = Raised(events[i].h, events[i].a[1])
             /\ Cardinality({j \in Positions(op) : events[j].h = events[i].h}) = 1
             /\ \A j \in Positions(op) : j < i
        /\ result.status = "ok" => Positions("raise") = {}

C8_Witness ==
    /\ op = "trigger_epoch"
    /\ Len(callbacks) = 3
    /\ result.status = "raised"
    /\ result.by = callbacks[2].id
    /\ callbacks[2].calls = 1
    /\ callbacks[3].calls = 0

\* C9: a Callbacks.trigger_epoch call whose total time tot is below 3 seconds
\* hands no line to the logger, however the time is spread over the hooks.
C9_QuietBelowFloor ==
    (op = "trigger_epoch" /\ tot < 3 * TicksPerSec) =>
        /\ logged = <<>>
        /\ Positions("logger.info") = {}

C9_Witness ==
    /\ op = "trigger_epoch"
    /\ result.status = "ok"
    /\ tot >= 0
    /\ tot < 3 * TicksPerSec
    /\ \E i \in 1..Len(times) : times[i] = tot /\ times[i] > TicksPerSec
    /\ logged = <<>>

\* the hooks whose time is more than 30% of tot and more than 1 second
Offenders == {i \in 1..Len(times) : 10 * times[i] > 3 * tot /\ times[i] > TicksPerSec}

\* C10: a Callbacks.trigger_epoch call whose total time tot is at least 3
\* seconds names in its report exactly the hooks whose own time is more than
\* 30% of tot and more than 1 second, each by its type name and its own time.
C10_ReportNamesOffenders ==
    (op = "trigger_epoch" /\ tot >= 3 * TicksPerSec) =>
        /\ Len(logged) = 1
        /\ Len(times) = Len(callbacks)
        /\ LET msgs == logged[1].msgs
           IN  /\ {msgs[k].idx : k \in 1..Len(msgs)} = Offenders
               /\ Len(msgs) = Cardinality(Offenders)
               /\ \A k \in 1..Len(msgs) :
                    /\ msgs[k].name = callbacks[msgs[k].idx].kind
                    /\ msgs[k].t = times[msgs[k].idx]

C10_Witness ==
    /\ op = "trigger_epoch"
    /\ tot = 3 * TicksPerSec
    /\ Len(logged) = 1
    /\ Len(logged[1].msgs) = 1
    /\ \E i, j \in 1..Len(times) :
         /\ 10 * times[i] > 3 * tot /\ times[i] <= TicksPerSec
         /\ logged[1].msgs[1].idx = j
         /\ i # j

----------------------------------------------------------------------------
\* C11 as stated: the total that a Callbacks.trigger_epoch call compares with
\* the 3-second floor and takes as the base of the 30% share is the sum of the
\* per-hook samples of that call, so the report appears exactly when that sum
\* reaches 3 seconds.
C11_AsStated ==
    (op = "trigger_epoch" /\ tot # -1) =>
        /\ tot = SumSeq(times)
        /\ (logged # <<>>) <=> (SumSeq(times) >= TotFloorSec * TicksPerSec)

\* C11: the total that a Callbacks.trigger_epoch call compares with the
\* 3-second floor and takes as the base of the 30% share is the clock time from
\* the start of the call to just after the flush: the sum of the per-hook
\* samples plus the time the call spent outside the hooks, so it is never less
\* than that sum, and it is the figure the report prints.
C11_TotalIsWallClock ==
    (op = "trigger_epoch" /\ tot # -1) =>
        /\ tot = SumSeq(times) + outside
        /\ tot >= SumSeq(times)
        /\ (logged # <<>>) <=> (tot >= TotFloorSec * TicksPerSec)
        /\ logged # <<>> =>
              /\ logged[1].tot = tot
              /\ \A k \in 1..Len(logged[1].msgs) :
                    ShareDen * logged[1].msgs[k].t > ShareNum * tot

C11_Witness ==
    /\ op = "trigger_epoch"
    /\ outside > 0
    /\ SumSeq(times) < TotFloorSec * TicksPerSec
    /\ tot >= TotFloorSec * TicksPerSec
    /\ Len(logged) = 1
    /\ logged[1].tot = tot

----------------------------------------------------------------------------
\* The aggregator is uninitialized while no Callbacks.before_train call has
\* been made: the first thing such a call does is to set the sess of the hook
\* at index 0.
Uninitialized == constructed = "ok" /\ ~callbacks[1].sess

\* C12: a Callbacks.trigger_step or Callbacks.trigger_epoch call made while the
\* aggregator is uninitialized raises an error of the aggregator's own instead
\* of dispatching to the hooks, and leaves every hook as it was constructed: no
\* recorded inputs, no counter increment, no checkpoint trigger.
C12_FailFast ==
    (Uninitialized /\ op \in {"trigger_step", "trigger_epoch"}) =>
        /\ result.status = "raised"
        /\ result.by = 0
        /\ \A k \in 1..Len(events) :
             ~IsTriggerStepEv(events[k]) /\ ~IsTriggerEpochEv(events[k])
        /\ \A i \in 1..Len(callbacks) :
             /\ callbacks[i].last_dp = 0
             /\ callbacks[i].epoch_num = 0
             /\ callbacks[i].fires = <<>>

----------------------------------------------------------------------------
\* C13 as stated: once a Callbacks.before_train call has returned, however many
\* such calls were made, the channel the aggregator retains, and flushes in
\* trigger_epoch, is the channel the SummaryWriter at index 0 appends its
\* summaries to, and the shared collection has been written once.
C13_AsStated ==
    (constructed = "ok" /\ writer # 0) =>
        /\ writer = callbacks[1].writer
        /\ Len(collection) = NumSummaryWriters(callbacks)
        /\ \A k \in Positions("flush") : events[k].a = <<callbacks[1].writer>>

\* the hooks whose before_train returned in the most recent call
ReturnedIn(e) ==
    {events[k].h : k \in {j \in Positions("return") :
                            \E i \in Positions(e) : i < j /\ events[i].h = events[j].h}}

\* C13: the channel the aggregator retains, and flushes in trigger_epoch, is the
\* first channel ever registered in the shared collection.  It is the channel
\* the SummaryWriter at index 0 appends to when that hook's channel is the only
\* one registered; after a further before_train call in which the hook
\* registered a new channel the aggregator still holds the first one and the
\* two differ.  Each before_train call writes the collection once for every
\* SummaryWriter whose before_train returns, and reads it once, after the
\* writes, when all hooks returned.
C13_KeepsFirstRegistered ==
    /\ (constructed = "ok" /\ writer # 0) =>
          /\ writer = collection[1]
          /\ callbacks[1].writer \in 1..Len(collection)
          /\ Len(collection) = 1 => writer = callbacks[1].writer
          /\ (Len(collection) > 1 /\ NumSummaryWriters(callbacks) = 1) =>
                /\ writer # callbacks[1].writer
                /\ callbacks[1].writer = collection[Len(collection)]
          /\ \A k \in Positions("flush") : events[k].a = <<collection[1]>>
          /\ \A k \in Positions("add_summary") :
               events[k].h = callbacks[1].id => events[k].a[1] = callbacks[1].writer
    /\ op = "before_train" =>
          /\ Cardinality(Positions("add_to_collection"))
               = Cardinality({i \in 1..Len(callbacks) :
                                /\ IsSummaryWriter(callbacks[i])
                                /\ callbacks[i].id \in ReturnedIn("before_train")})
          /\ Cardinality(Positions("get_collection"))
               = (IF result.status = "ok" THEN 1 ELSE 0)
          /\ \A g \in Positions("get_collection") :
               /\ g = Len(events)
               /\ events[g].a = <<collection[1]>>

C13_Witness ==
    /\ op = "trigger_epoch"
    /\ result.status = "ok"
    /\ writer = 1
    /\ callbacks[1].writer = 2
    /\ \E k \in Positions("add_summary") : events[k].a[1] = 2
    /\ \E k \in Positions("flush") : events[k].a = <<1>>

----------------------------------------------------------------------------
IsSampleEv(ev) == ev.e = "times.append"

\* C14: a Callbacks.trigger_epoch call that returns has invoked trigger_epoch
\* on every hook exactly once, in list order with the SummaryWriter first; each
\* hook has returned, and its time has been recorded, before the next hook is
\* invoked; `times` holds one sample per hook, the i-th being the time of the
\* hook at list index i.
C14_EpochDispatch ==
    (op = "trigger_epoch" /\ result.status = "ok") =>
        LET inv == SelectSeq(events, IsTriggerEpochEv)
            smp == SelectSeq(events, IsSampleEv)
        IN  /\ HooksOf(inv) = IdsOf(callbacks)
            /\ IsSummaryWriter(callbacks[1])
            /\ \A p, q \in Positions("trigger_epoch") :
                 p < q => \E r \in Positions("return"), t \in Positions("times.append") :
                            /\ p < r /\ r < t /\ t < q
                            /\ events[r].h = events[p].h
                            /\ events[t].h = events[p].h
            /\ Len(times) = Len(callbacks)
            /\ HooksOf(smp) = IdsOf(callbacks)
            /\ \A i \in 1..Len(times) : smp[i].a = <<times[i]>>
            /\ \A i \in 1..Len(callbacks) : callbacks[i].calls > 0

C14_Witness ==
    /\ op = "trigger_epoch"
    /\ result.status = "ok"
    /\ Len(callbacks) = 3
    /\ Len(times) = 3
    /\ times[1] < times[2] /\ times[2] < times[3]
    /\ Len(SelectSeq(events, IsTriggerEpochEv)) = 3

----------------------------------------------------------------------------
\* C15: every Callbacks.trigger_epoch call whose total time is at least 3
\* seconds emits exactly one log line, which carries the total and all the
\* flagged hooks together; a call in which no hook is flagged emits the line
\* too, with the total and no hook.
C15_OneCombinedLine ==
    (op = "trigger_epoch" /\ tot >= TotFloorSec * TicksPerSec) =>
        /\ Cardinality(Positions("logger.info")) = 1
        /\ events[Len(events)].e = "logger.info"
        /\ Len(logged) = 1
        /\ logged[1].tot = tot
        /\ Len(logged[1].msgs) = Cardinality(Offenders)
        /\ Offenders = {} => logged[1].msgs = <<>>

C15_Witness ==
    /\ op = "trigger_epoch"
    /\ tot >= TotFloorSec * TicksPerSec
    /\ Offenders = {}
    /\ Len(logged) = 1
    /\ logged[1] = [tot |-> tot, msgs |-> <<>>]

----------------------------------------------------------------------------
\* the hooks of hs other than the k-th, in the order of hs
RECURSIVE Without(_, _, _)
Without(hs, k, i) ==
    IF i > Len(hs) THEN <<>>
    ELSE (IF i = k THEN <<>> ELSE <<hs[i]>>) \o Without(hs, k, i + 1)

\* C16: for every input list that holds one or more SummaryWriters the
\* construction succeeds; the hook list is a permutation of the input, with
\* the input's first SummaryWriter at its front and after it all the other
\* hooks, further SummaryWriters included, in the order the input had them;
\* the construction invokes no hook method and leaves every hook as it was.
C16_FirstOfSeveralToFront ==
    (constructed # "no" /\ NumSummaryWriters(input) >= 1) =>
        LET first == CHOOSE k \in 1..Len(input) :
                        /\ IsSummaryWriter(input[k])
                        /\ \A j \in 1..(k - 1) : ~IsSummaryWriter(input[j])
        IN  /\ constructed = "ok"
            /\ Len(callbacks) = Len(input)
            /\ {callbacks[i].id : i \in 1..Len(callbacks)} = 1..Len(input)
            /\ callbacks[1].id = first
            /\ IdsOf(Tail(callbacks)) = IdsOf(Without(input, first, 1))
            /\ op = "__init__" =>
                  /\ events = <<>>
                  /\ result = Ok
                  /\ \A i \in 1..Len(callbacks) : callbacks[i] = input[callbacks[i].id]

C16_Witness ==
    /\ constructed = "ok"
    /\ op = "__init__"
    /\ Len(input) = 3
    /\ ~IsSummaryWriter(input[1])
    /\ IsSummaryWriter(input[2])
    /\ IsSummaryWriter(input[3])
    /\ IdsOf(callbacks) = <<2, 1, 3>>

----------------------------------------------------------------------------
IsPeriodicSaver(h) == h.kind = "PeriodicSaver"

----------------------------------------------------------------------------
\* the calls that belong to the end of an epoch
EpochLevelEvents == {"trigger_epoch", "_trigger", "save", "add_summary", "flush", "logger.info"}

\* C18: a Callbacks.trigger_step call changes nothing of the epoch-level state:
\* the epoch counters of the PeriodicCallbacks and of the SummaryWriter keep
\* their values, no checkpoint trigger runs, the summary channel is not flushed,
\* no report is written, the hook list and its order stay as they were.  The
\* one attribute the call writes is the SummaryWriter's record of the inputs.
C18_StepFrame ==
    [][op' = "trigger_step" =>
          /\ IdsOf(callbacks') = IdsOf(callbacks)
          /\ \A i \in 1..Len(callbacks) :
               /\ callbacks'[i] = [callbacks[i] EXCEPT !.last_dp = callbacks'[i].last_dp]
               /\ ~IsSummaryWriter(callbacks[i]) => callbacks'[i] = callbacks[i]
               /\ callbacks'[i].last_dp \in {callbacks[i].last_dp, args'[1]}
          /\ writer' = writer
          /\ collection' = collection
          /\ nEpochs' = nEpochs
          /\ logged' = <<>>
          /\ \A k \in 1..Len(events') : events'[k].e \notin EpochLevelEvents
      ]_vars

C18_Witness ==
    /\ op = "trigger_step"
    /\ result.status = "ok"
    /\ nEpochs > 1
    /\ callbacks[1].epoch_num > 0
    /\ callbacks[1].last_dp = args[1]
    /\ \E i \in 1..Len(callbacks) :
         /\ IsPeriodicSaver(callbacks[i])
         /\ callbacks[i].period = 2
         /\ callbacks[i].epoch_num = 1
         /\ callbacks[i].saves = <<>>
====
